---- MODULE Spec2Model ----
(***************************************************************************)
(* Model of metric_voting/measurements.py: the cost-matrix builders, the   *)
(* best-subset cost, the group inefficiency score and the weights of the   *)
(* random bloc sampler.  A state is one call: the function called, its     *)
(* arguments, and (once the call has run) its result.                      *)
(***************************************************************************)
EXTENDS Integers, Sequences, FiniteSets

VARIABLES
    fn,                  \* the function being called
    pc,                  \* "call" before the body runs, "done" after it returned or raised
    cst_array,           \* (m x n) cost matrix: a sequence of m rows of n costs
    winner_indices,      \* length k sequence of 0-based candidate indices
    voter_labels,        \* length n sequence of bloc labels
    bloc_label,          \* the target label
    size,                \* the size argument: None or an integer
    t,                   \* representatives owed (random_group_inefficiency)
    voter_positions,     \* [n, d, pts]: an (n x d) array of voter points
    candidate_positions, \* [n, d, pts]: an (m x d) array of candidate points
    weights,             \* the weights random_group_inefficiency computed
    result               \* what the call returned or raised

vars == <<fn, pc, cst_array, winner_indices, voter_labels, bloc_label, size, t,
          voter_positions, candidate_positions, weights, result>>

----------------------------------------------------------------------------
(* Bounds of the model. *)

MaxM == 2          \* candidates (rows) of a scored cost matrix
MaxN == 2          \* voters (columns) of a scored cost matrix
MaxT == 2          \* largest t of random_group_inefficiency
MaxRows == 3       \* rows of a matrix handed to proportional_assignment_cost
MaxCols == 2       \* columns of a matrix handed to proportional_assignment_cost
MaxLargeN == 22    \* voters of the large uniform elections
MaxVoterPts == 2   \* voter points handed to the cost-matrix builders
MaxCandPts == 3    \* candidate points handed to the cost-matrix builders
MaxDim == 3        \* dimensionality of the points

Costs == {0, 1}             \* the entries a cost matrix draws from
Coords == {0, 5, 10}        \* the first coordinate of a point (the others are 0)
Labels == {0, 1}            \* bloc labels of the voters

(* size: Optional[int] = None *)
None == -1

(* Significand bits of an IEEE-754 double, the type of bloc_size / n * k. *)
Precision == 53

----------------------------------------------------------------------------
(* Arithmetic helpers. *)

Min(a, b) == IF a <= b THEN a ELSE b

RECURSIVE SumSeq(_)
SumSeq(s) == IF s = <<>> THEN 0 ELSE Head(s) + SumSeq(Tail(s))

RemoveAt(s, i) == SubSeq(s, 1, i - 1) \o SubSeq(s, i + 1, Len(s))

(* Mutant of SortAsc: the np.sort is forgotten. *)
SortAscMissing(s) == s

(* np.sort of a 1-d array: ascending. *)
RECURSIVE SortAsc(_)
SortAsc(s) ==
    IF s = <<>> THEN <<>>
    ELSE LET i == CHOOSE i \in 1..Len(s) : \A j \in 1..Len(s) : s[i] <= s[j]
         IN  <<s[i]>> \o SortAsc(RemoveAt(s, i))

(* s[:k]: the first k entries, or all of s when it has fewer. *)
Prefix(s, k) == SubSeq(s, 1, Min(k, Len(s)))

(* Exact square root; the points of the model have integral distances. *)
Sqrt(x) == CHOOSE r \in 0..x : r * r = x

----------------------------------------------------------------------------
(* IEEE-754 double arithmetic on small non-negative operands.  A float is  *)
(* [bits, exp]: Precision significand bits, most significant first, with   *)
(* value 0.b1 b2 ... bP (binary) * 2^exp and b1 = 1 unless the value is 0. *)

ZeroBits == [i \in 1..Precision |-> 0]
FloatZero == [bits |-> ZeroBits, exp |-> 0]

(* num/den scaled by powers of two into [1/2, 1). *)
RECURSIVE Normalise(_, _, _)
Normalise(num, den, e) ==
    IF num >= den THEN Normalise(num, 2 * den, e + 1)
    ELSE IF 2 * num < den THEN Normalise(2 * num, den, e - 1)
    ELSE [num |-> num, den |-> den, exp |-> e]

(* Long division: the next bits of rem/den, most significant first. *)
RECURSIVE DivBits(_, _, _, _)
DivBits(rem, den, acc, left) ==
    IF left = 0 THEN [bits |-> acc, rem |-> rem]
    ELSE IF 2 * rem >= den
         THEN DivBits(2 * rem - den, den, Append(acc, 1), left - 1)
         ELSE DivBits(2 * rem, den, Append(acc, 0), left - 1)

(* bits + 1 in the last place; all ones carry into the next binade. *)
RECURSIVE AddUlp(_, _)
AddUlp(bits, i) ==
    IF i = 0 THEN <<>>
    ELSE IF bits[i] = 0 THEN [bits EXCEPT ![i] = 1]
         ELSE AddUlp([bits EXCEPT ![i] = 0], i - 1)

RoundUp(bits, e) ==
    LET b == AddUlp(bits, Len(bits))
    IN  IF b = <<>>
        THEN [bits |-> [i \in 1..Len(bits) |-> IF i = 1 THEN 1 ELSE 0], exp |-> e + 1]
        ELSE [bits |-> b, exp |-> e]

(* a / b for integers a >= 0, b > 0, rounded to nearest, ties to even. *)
FloatDiv(a, b) ==
    IF a = 0 THEN FloatZero
    ELSE LET nm == Normalise(a, b, 0)
             q == DivBits(nm.num, nm.den, <<>>, Precision)
             up == \/ 2 * q.rem > nm.den
                   \/ 2 * q.rem = nm.den /\ q.bits[Precision] = 1
         IN  IF up THEN RoundUp(q.bits, nm.exp)
             ELSE [bits |-> q.bits, exp |-> nm.exp]

RECURSIVE ToBits(_)
ToBits(x) == IF x = 0 THEN <<>> ELSE Append(ToBits(x \div 2), x % 2)

RECURSIVE FromBits(_)
FromBits(b) ==
    IF b = <<>> THEN 0 ELSE 2 * FromBits(SubSeq(b, 1, Len(b) - 1)) + b[Len(b)]

(* The exact product of a significand and an integer, as bits. *)
RECURSIVE MulBits(_, _, _, _, _)
MulBits(bits, i, carry, k, acc) ==
    IF i = 0 THEN ToBits(carry) \o acc
    ELSE IF (bits[i] * k + carry) % 2 = 1
         THEN MulBits(bits, i - 1, (bits[i] * k + carry) \div 2, k, <<1>> \o acc)
         ELSE MulBits(bits, i - 1, (bits[i] * k + carry) \div 2, k, <<0>> \o acc)

(* f * k for a float f >= 0 and an integer k >= 0, rounded to nearest even. *)
FloatMul(f, k) ==
    IF f = FloatZero \/ k = 0 THEN FloatZero
    ELSE LET p == MulBits(f.bits, Precision, 0, k, <<>>)
             L == Len(p)
             kept == SubSeq(p, 1, Precision)
             dropped == SubSeq(p, Precision + 1, L)
             e == f.exp + (L - Precision)
             up == /\ L > Precision
                   /\ dropped[1] = 1
                   /\ \/ \E i \in 2..Len(dropped) : dropped[i] = 1
                      \/ kept[Precision] = 1
         IN  IF up THEN RoundUp(kept, e) ELSE [bits |-> kept, exp |-> e]

(* int(f): truncation toward zero, for 0 <= f < 2^Precision. *)
FloatToInt(f) ==
    IF f.exp <= 0 THEN 0 ELSE FromBits(SubSeq(f.bits, 1, Min(f.exp, Precision)))

----------------------------------------------------------------------------
(* Floating-point quotients.  A quotient is finite (num/den with den > 0), *)
(* infinite or NaN: numpy's true division warns on a zero divisor and      *)
(* returns inf or nan, it does not raise.                                  *)

Fin(a, b) == [kind |-> "fin", num |-> a, den |-> b]
Inf == [kind |-> "inf", num |-> 0, den |-> 0]
NaN == [kind |-> "nan", num |-> 0, den |-> 0]

(* a / b for non-negative sums a, b. *)
Divide(a, b) ==
    IF b # 0 THEN Fin(a, b) ELSE IF a = 0 THEN NaN ELSE Inf

(* x / y for non-negative quotients x, y. *)
QDivide(x, y) ==
    IF x.kind = "nan" \/ y.kind = "nan" THEN NaN
    ELSE IF x.kind = "inf" THEN (IF y.kind = "inf" THEN NaN ELSE Inf)
    ELSE IF y.kind = "inf" THEN Fin(0, 1)
    ELSE IF y.num = 0 THEN (IF x.num = 0 THEN NaN ELSE Inf)
    ELSE Fin(x.num * y.den, x.den * y.num)

QAdd(x, y) ==
    IF x.kind = "nan" \/ y.kind = "nan" THEN NaN
    ELSE IF x.kind = "inf" \/ y.kind = "inf" THEN Inf
    ELSE Fin(x.num * y.den + y.num * x.den, x.den * y.den)

(* np.sum of a 1-d array of quotients. *)
RECURSIVE QSum(_)
QSum(s) == IF s = <<>> THEN Fin(0, 1) ELSE QAdd(Head(s), QSum(Tail(s)))

----------------------------------------------------------------------------
(* measurements.py *)

(* Mutant of candidate_costs: the sum runs along axis 0 (the column sums). *)
candidate_costs_axis0(a) ==
    IF a = <<>> THEN <<>>
    ELSE [j \in 1..Len(a[1]) |-> SumSeq([i \in 1..Len(a) |-> a[i][j]])]

(* candidate_costs: np.sum(cst_array, axis=1), the row sums. *)
candidate_costs(a) == [i \in 1..Len(a) |-> SumSeq(a[i])]

(* Mutant of proportional_assignment_cost: the size check is off by one    *)
(* (size >= len(cst_array)).                                                *)
proportional_assignment_cost_strict(a, sz) ==
    IF sz >= Len(a)
    THEN [raised |-> TRUE, value |-> 0]
    ELSE [raised |-> FALSE,
          value |-> SumSeq(Prefix(SortAsc(candidate_costs(a)), sz))]

(* proportional_assignment_cost: raises when size exceeds the rows, else   *)
(* the sum of the size smallest row sums.                                   *)
proportional_assignment_cost(a, sz) ==
    IF sz > Len(a)
    THEN [raised |-> TRUE, value |-> 0]
    ELSE [raised |-> FALSE,
          value |-> SumSeq(Prefix(SortAsc(candidate_costs(a)), sz))]

(* voter_labels == bloc_label: the boolean mask over the voters. *)
BlocMask(labels, bl) == [j \in 1..Len(labels) |-> labels[j] = bl]

(* np.sum(voter_labels == bloc_label) *)
BlocSize(labels, bl) == Cardinality({j \in 1..Len(labels) : BlocMask(labels, bl)[j]})

(* row[mask]: the entries of a row at the columns the mask selects. *)
RECURSIVE SelectColumns(_, _, _)
SelectColumns(row, mask, j) ==
    IF j > Len(row) THEN <<>>
    ELSE (IF mask[j] THEN <<row[j]>> ELSE <<>>) \o SelectColumns(row, mask, j + 1)

(* cst_array[:, voter_labels == bloc_label] *)
BlocDists(a, labels, bl) ==
    [i \in 1..Len(a) |-> SelectColumns(a[i], BlocMask(labels, bl), 1)]

(* bloc_dists[winner_indices, :]; the indices are 0-based. *)
WinnerRows(a, w) == [i \in 1..Len(w) |-> a[w[i] + 1]]

(* Mutant of ProportionalSize: the share is rounded to nearest instead of   *)
(* truncated.                                                               *)
ProportionalSizeRounded(bsize, n, k) == (2 * bsize * k + n) \div (2 * n)

(* int(bloc_size / n * k), evaluated in double precision. *)
ProportionalSize(bsize, n, k) == FloatToInt(FloatMul(FloatDiv(bsize, n), k))

(* The size group_inefficiency works with. *)
EffectiveSize(a, w, labels, bl, sz) ==
    IF sz = None
    THEN ProportionalSize(BlocSize(labels, bl), Len(a[1]), Len(w))
    ELSE sz

(* Mutant of group_inefficiency: cost1 is taken over the winners' rows of   *)
(* the whole matrix, not of the bloc's columns.                             *)
group_inefficiency_all_columns(a, w, labels, bl, sz) ==
    LET s == EffectiveSize(a, w, labels, bl, sz)
        bloc_dists == BlocDists(a, labels, bl)
        cost1 == proportional_assignment_cost(WinnerRows(a, w), s)
        cost2 == proportional_assignment_cost(bloc_dists, s)
    IN  IF s # 0
        THEN IF cost1.raised
             THEN [kind |-> "ValueError", score |-> NaN, cost1 |-> 0, cost2 |-> 0,
                   size |-> s, calls |-> 1]
             ELSE IF cost2.raised
             THEN [kind |-> "ValueError", score |-> NaN, cost1 |-> cost1.value,
                   cost2 |-> 0, size |-> s, calls |-> 2]
             ELSE [kind |-> "score", score |-> Divide(cost1.value, cost2.value),
                   cost1 |-> cost1.value, cost2 |-> cost2.value,
                   size |-> s, calls |-> 2]
        ELSE [kind |-> "zero", score |-> Fin(0, 1), cost1 |-> 0, cost2 |-> 0,
              size |-> s, calls |-> 0]

(* group_inefficiency.  kind is "zero" (the literal 0 of the last line),   *)
(* "score" (cost1 / cost2) or "ValueError" (raised by a cost evaluation);  *)
(* calls counts the evaluations of proportional_assignment_cost.           *)
group_inefficiency(a, w, labels, bl, sz) ==
    LET s == EffectiveSize(a, w, labels, bl, sz)
        bloc_dists == BlocDists(a, labels, bl)
        cost1 == proportional_assignment_cost(WinnerRows(bloc_dists, w), s)
        cost2 == proportional_assignment_cost(bloc_dists, s)
    IN  IF s # 0
        THEN IF cost1.raised
             THEN [kind |-> "ValueError", score |-> NaN, cost1 |-> 0, cost2 |-> 0,
                   size |-> s, calls |-> 1]
             ELSE IF cost2.raised
             THEN [kind |-> "ValueError", score |-> NaN, cost1 |-> cost1.value,
                   cost2 |-> 0, size |-> s, calls |-> 2]
             ELSE [kind |-> "score", score |-> Divide(cost1.value, cost2.value),
                   cost1 |-> cost1.value, cost2 |-> cost2.value,
                   size |-> s, calls |-> 2]
        ELSE [kind |-> "zero", score |-> Fin(0, 1), cost1 |-> 0, cost2 |-> 0,
              size |-> s, calls |-> 0]

(* np.sum(np.sort(a[rows, :], axis=0)[:t, :], axis=0): per voter, the sum  *)
(* of the t smallest costs among the given rows.                           *)
Column(a, j) == [i \in 1..Len(a) |-> a[i][j]]

SmallestSums(a, n, tt) ==
    [j \in 1..n |-> SumSeq(Prefix(SortAsc(Column(a, j)), tt))]

(* random_group_inefficiency, weights is None: greedy_scores / their sum. *)
GreedyWeights(a, w, tt) ==
    LET n == Len(a[1])
        winner_set_cost_arr == SmallestSums(WinnerRows(a, w), n, tt)
        candidate_set_cost_arr == SmallestSums(a, n, tt)
        greedy_scores ==
            [j \in 1..n |-> Divide(winner_set_cost_arr[j], candidate_set_cost_arr[j])]
        total == QSum(greedy_scores)
    IN  [j \in 1..n |-> QDivide(greedy_scores[j], total)]

----------------------------------------------------------------------------
(* The cost-matrix builders.  An array of points is [n, d, pts]: its shape *)
(* (n, d) and its n points, each a sequence of d coordinates.               *)

SumSquares(x, y, d) ==
    SumSeq([c \in 1..d |-> (x[IF Len(x) = 1 THEN 1 ELSE c] - y[IF Len(y) = 1 THEN 1 ELSE c])
                           * (x[IF Len(x) = 1 THEN 1 ELSE c] - y[IF Len(y) = 1 THEN 1 ELSE c])])

(* The default distance_fn of cost_array, from utils. *)
euclidean_distance(x, y) ==
    IF Len(x) # Len(y)
    THEN [raised |-> TRUE, value |-> 0]
    ELSE [raised |-> FALSE, value |-> Sqrt(SumSquares(x, y, Len(x)))]

(* cost_array: zeros((m, n)) filled in by one distance_fn call per pair;   *)
(* with no pair there is no call.                                           *)
cost_array(vp, cp) ==
    LET m == cp.n
        n == vp.n
        d == [i \in 1..m |-> [j \in 1..n |-> euclidean_distance(vp.pts[j], cp.pts[i])]]
    IN  IF \E i \in 1..m : \E j \in 1..n : d[i][j].raised
        THEN [kind |-> "error", shape |-> <<0, 0>>, value |-> <<>>]
        ELSE [kind |-> "array", shape |-> <<m, n>>,
              value |-> [i \in 1..m |-> [j \in 1..n |-> d[i][j].value]]]

(* Whether numpy broadcasts the trailing axes d1 and d2. *)
Broadcasts(d1, d2) == d1 = d2 \/ d1 = 1 \/ d2 = 1

(* euclidean_cost_array: sqrt(sum((v[None,:,:] - c[:,None,:])**2, axis=-1)) *)
euclidean_cost_array(vp, cp) ==
    LET m == cp.n
        n == vp.n
        d == IF vp.d >= cp.d THEN vp.d ELSE cp.d
    IN  IF ~Broadcasts(vp.d, cp.d)
        THEN [kind |-> "error", shape |-> <<0, 0>>, value |-> <<>>]
        ELSE [kind |-> "array", shape |-> <<m, n>>,
              value |-> [i \in 1..m |->
                          [j \in 1..n |-> Sqrt(SumSquares(vp.pts[j], cp.pts[i], d))]]]

----------------------------------------------------------------------------
(* The random bloc of random_group_inefficiency (random_voter_bloc, from   *)
(* utils): a bloc entitled to t of the k winners, drawn without            *)
(* replacement among the voters of positive weight.                        *)

CeilDiv(a, b) == (a + b - 1) \div b

random_voter_bloc(n, k, tt, w) ==
    IF \E j \in 1..n : w[j].kind # "fin"
    THEN {}
    ELSE {b \in SUBSET (1..n) : /\ Cardinality(b) = CeilDiv(n * tt, k)
                                /\ \A j \in b : w[j].num > 0}

(* random_bloc_labels = zeros(n); random_bloc_labels[random_bloc] = 1 *)
RandomBlocLabels(n, b) == [j \in 1..n |-> IF j \in b THEN 1 ELSE 0]

----------------------------------------------------------------------------
(* The inputs of the calls. *)

Matrices(m, n) == [1..m -> [1..n -> Costs]]

(* Arrays of distinct candidate indices in [0, m), in any order. *)
WinnerArrays(m) ==
    UNION {{w \in [1..k -> 0..(m - 1)] : \A i, j \in 1..k : i # j => w[i] # w[j]}
           : k \in 0..m}

(* The winners of an election rule: distinct indices, in increasing order. *)
WinnerSets(m) ==
    {w \in WinnerArrays(m) : \A i, j \in 1..Len(w) : i < j => w[i] < w[j]}

Sizes == {None} \cup 0..(MaxM + 1)
PacSizes == 0..(MaxRows + 1)

Point(x, d) == [c \in 1..d |-> IF c = 1 THEN x ELSE 0]

PointArrays(maxn) ==
    UNION {{[n |-> n, d |-> d, pts |-> [j \in 1..n |-> Point(xs[j], d)]]
            : xs \in {ys \in [1..n -> Coords] : \A i, j \in 1..n : i < j => ys[i] <= ys[j]}}
           : <<n, d>> \in (0..maxn) \X (1..MaxDim)}

NoPoints == [n |-> 0, d |-> 0, pts |-> <<>>]

IsSquare(x) == \E r \in 0..x : r * r = x

(* Every distance the builders compute from these points is an integer. *)
ExactDistances(vp, cp) ==
    Broadcasts(vp.d, cp.d) =>
        \A i \in 1..cp.n : \A j \in 1..vp.n :
            IsSquare(SumSquares(vp.pts[j], cp.pts[i], IF vp.d >= cp.d THEN vp.d ELSE cp.d))

Pending == [kind |-> "pending"]

----------------------------------------------------------------------------
(* Initial states: one pending call. *)

InitGroupInefficiency ==
    /\ fn = "group_inefficiency"
    /\ \E m \in 1..MaxM : \E n \in 1..MaxN :
          /\ cst_array \in Matrices(m, n)
          /\ winner_indices \in WinnerSets(m)
          /\ voter_labels \in [1..n -> Labels]
    /\ bloc_label = 1
    /\ size \in Sizes
    /\ t = 0
    /\ voter_positions = NoPoints /\ candidate_positions = NoPoints

(* A large election with uniform costs, every candidate a winner and the   *)
(* bloc made of the first voters; the size is left to be proportional.     *)
InitLargeElection ==
    /\ fn = "group_inefficiency"
    /\ \E n \in 1..MaxLargeN : \E k \in 1..n : \E b \in 0..n :
          /\ cst_array = [i \in 1..k |-> [j \in 1..n |-> 1]]
          /\ winner_indices = [i \in 1..k |-> i - 1]
          /\ voter_labels = [j \in 1..n |-> IF j <= b THEN 1 ELSE 0]
    /\ bloc_label = 1
    /\ size = None
    /\ t = 0
    /\ voter_positions = NoPoints /\ candidate_positions = NoPoints

InitProportionalAssignmentCost ==
    /\ fn = "proportional_assignment_cost"
    /\ \E m \in 0..MaxRows : \E n \in 0..MaxCols : cst_array \in Matrices(m, n)
    /\ size \in PacSizes
    /\ winner_indices = <<>> /\ voter_labels = <<>> /\ bloc_label = 0 /\ t = 0
    /\ voter_positions = NoPoints /\ candidate_positions = NoPoints

InitRandomGroupInefficiency ==
    /\ fn = "random_group_inefficiency"
    /\ \E m \in 1..MaxM : \E n \in 1..MaxN :
          /\ cst_array \in Matrices(m, n)
          /\ winner_indices \in WinnerArrays(m) \ {<<>>}
    /\ t \in 1..MaxT
    /\ voter_labels = <<>> /\ bloc_label = 0 /\ size = None
    /\ voter_positions = NoPoints /\ candidate_positions = NoPoints

InitCostArrays ==
    /\ fn \in {"cost_array", "euclidean_cost_array"}
    /\ voter_positions \in PointArrays(MaxVoterPts)
    /\ candidate_positions \in PointArrays(MaxCandPts)
    /\ ExactDistances(voter_positions, candidate_positions)
    /\ cst_array = <<>> /\ winner_indices = <<>> /\ voter_labels = <<>>
    /\ bloc_label = 0 /\ size = None /\ t = 0

Init ==
    /\ pc = "call"
    /\ weights = <<>>
    /\ result = Pending
    /\ \/ InitGroupInefficiency
       \/ InitLargeElection
       \/ InitProportionalAssignmentCost
       \/ InitRandomGroupInefficiency
       \/ InitCostArrays

----------------------------------------------------------------------------
(* Actions: the body of each call. *)

CallGroupInefficiency ==
    /\ pc = "call" /\ fn = "group_inefficiency"
    /\ result' = group_inefficiency(cst_array, winner_indices, voter_labels,
                                    bloc_label, size)
    /\ pc' = "done"
    /\ UNCHANGED <<fn, cst_array, winner_indices, voter_labels, bloc_label, size, t,
                   voter_positions, candidate_positions, weights>>

CallProportionalAssignmentCost ==
    /\ pc = "call" /\ fn = "proportional_assignment_cost"
    /\ result' = proportional_assignment_cost(cst_array, size)
    /\ pc' = "done"
    /\ UNCHANGED <<fn, cst_array, winner_indices, voter_labels, bloc_label, size, t,
                   voter_positions, candidate_positions, weights>>

CallCostArray ==
    /\ pc = "call" /\ fn = "cost_array"
    /\ result' = cost_array(voter_positions, candidate_positions)
    /\ pc' = "done"
    /\ UNCHANGED <<fn, cst_array, winner_indices, voter_labels, bloc_label, size, t,
                   voter_positions, candidate_positions, weights>>

CallEuclideanCostArray ==
    /\ pc = "call" /\ fn = "euclidean_cost_array"
    /\ result' = euclidean_cost_array(voter_positions, candidate_positions)
    /\ pc' = "done"
    /\ UNCHANGED <<fn, cst_array, winner_indices, voter_labels, bloc_label, size, t,
                   voter_positions, candidate_positions, weights>>

(* The batch script scores a rule's winners for the whole electorate: the  *)
(* cost matrix of the positions, labels all 0, target label 0, no size.    *)
ScoreOverall ==
    /\ pc = "done" /\ fn \in {"cost_array", "euclidean_cost_array"}
    /\ result.kind = "array"
    /\ result.shape[1] >= 1 /\ result.shape[2] >= 1
    /\ fn' = "group_inefficiency"
    /\ pc' = "call"
    /\ cst_array' = result.value
    /\ winner_indices' \in WinnerSets(result.shape[1]) \ {<<>>}
    /\ voter_labels' = [j \in 1..result.shape[2] |-> 0]
    /\ bloc_label' = 0
    /\ size' = None
    /\ result' = Pending
    /\ UNCHANGED <<t, voter_positions, candidate_positions, weights>>

(* random_group_inefficiency up to the weights. *)
ComputeWeights ==
    /\ pc = "call" /\ fn = "random_group_inefficiency"
    /\ weights' = GreedyWeights(cst_array, winner_indices, t)
    /\ pc' = "sample"
    /\ UNCHANGED <<fn, cst_array, winner_indices, voter_labels, bloc_label, size, t,
                   voter_positions, candidate_positions, result>>

(* random_group_inefficiency from the draw of the bloc to its score. *)
SampleAndScore ==
    /\ pc = "sample" /\ fn = "random_group_inefficiency"
    /\ LET n == Len(cst_array[1])
           blocs == random_voter_bloc(n, Len(winner_indices), t, weights)
       IN  IF blocs = {}
           THEN /\ result' = [kind |-> "ValueError", score |-> NaN, cost1 |-> 0,
                              cost2 |-> 0, size |-> 0, calls |-> 0]
                /\ UNCHANGED <<voter_labels, bloc_label>>
           ELSE \E b \in blocs :
                  /\ voter_labels' = RandomBlocLabels(n, b)
                  /\ bloc_label' = 1
                  /\ result' = group_inefficiency(cst_array, winner_indices,
                                                  RandomBlocLabels(n, b), 1, None)
    /\ pc' = "done"
    /\ UNCHANGED <<fn, cst_array, winner_indices, size, t,
                   voter_positions, candidate_positions, weights>>

Next ==
    \/ CallGroupInefficiency
    \/ CallProportionalAssignmentCost
    \/ CallCostArray
    \/ CallEuclideanCostArray
    \/ ScoreOverall
    \/ ComputeWeights
    \/ SampleAndScore

Spec == Init /\ [][Next]_vars

----------------------------------------------------------------------------
(* Vocabulary of the properties. *)

GIDone == pc = "done" /\ fn = "group_inefficiency"
PacDone == pc = "done" /\ fn = "proportional_assignment_cost"
BuilderDone == pc = "done" /\ fn \in {"cost_array", "euclidean_cost_array"}

NumCandidates == Len(cst_array)
NumVoters == Len(cst_array[1])
NumWinners == Len(winner_indices)
Members == BlocSize(voter_labels, bloc_label)

(* floor(bloc_size * k / n), in exact integer arithmetic. *)
ExactShare == (Members * NumWinners) \div NumVoters

(* winner_indices holds every index 0..m-1 exactly once. *)
FullPool ==
    /\ NumWinners = NumCandidates
    /\ \A c \in 0..(NumCandidates - 1) : \E i \in 1..NumWinners : winner_indices[i] = c

IsOne(q) == q.kind = "fin" /\ q.num = q.den
AtLeastOne(q) == q.kind = "inf" \/ (q.kind = "fin" /\ q.num >= q.den)

(* The total of the row sums of the rows in S. *)
RowTotal(a, S) == SumSeq([i \in 1..Len(a) |-> IF i \in S THEN SumSeq(a[i]) ELSE 0])

(* Whether v is the least total of the row sums of sz distinct rows of a. *)
IsMinSubsetCost(a, sz, v) ==
    LET subsets == {S \in SUBSET (1..Len(a)) : Cardinality(S) = sz}
    IN  /\ \E S \in subsets : RowTotal(a, S) = v
        /\ \A S \in subsets : RowTotal(a, S) >= v

----------------------------------------------------------------------------
(* Properties. *)

(* C1: whenever group_inefficiency works with a size 0 < size <= k on a    *)
(* non-negative cost matrix and distinct winners, the score it returns is  *)
(* at least 1.                                                             *)
C1_ScoreAtLeastOne ==
    (GIDone /\ 0 < result.size /\ result.size <= NumWinners)
        => (result.kind = "score" /\ AtLeastOne(result.score))

(* Lemma for C1: the winner-restricted cost is never below the cost over   *)
(* all candidates, whatever the quotient of the two comes to.              *)
CostsOrdered ==
    (GIDone /\ result.kind = "score") => result.cost1 >= result.cost2

C3_DegenerateIsZero ==
    (GIDone /\ (\/ Members = 0
                \/ size = None /\ ExactShare = 0
                \/ size = 0))
        => (result.kind = "zero" /\ result.calls = 0)

(* C3, amended: the call returns 0, evaluating neither cost, exactly when  *)
(* the size it works with is 0: a size supplied as 0, or no size supplied  *)
(* and an empty bloc or floor(bloc_size * k / n) = 0.  An empty bloc with  *)
(* an explicit positive size is not short-circuited: the costs are         *)
(* evaluated, giving 0/0 (NaN) for size <= k and the size error above k.   *)
C3_ZeroIffSizeZero ==
    GIDone =>
        /\ result.kind = "zero" <=> result.size = 0
        /\ result.kind = "zero" => result.calls = 0
        /\ size = 0 => result.kind = "zero"
        /\ (size = None /\ (Members = 0 \/ ExactShare = 0)) => result.kind = "zero"
        /\ (Members = 0 /\ size # None /\ size > 0) =>
              /\ result.calls >= 1
              /\ size <= NumWinners => (result.kind = "score" /\ result.score = NaN)
              /\ size > NumWinners => result.kind = "ValueError"

(* C3 witness: a non-empty bloc too small for one of the k winners.        *)
C3_Witness ==
    /\ GIDone /\ size = None /\ Members > 0 /\ NumWinners > 0 /\ ExactShare = 0
    /\ result.kind = "zero" /\ result.calls = 0

(* C4: when cost2 = 0 with size > 0 the call yields a defined result and   *)
(* never an infinite or NaN quotient.                                      *)
C4_ZeroCostHandled ==
    (GIDone /\ result.kind = "score" /\ result.cost2 = 0)
        => result.score.kind = "fin"

(* Scenario B: voters at (0,0) and (10,0), candidates at (0,0), (5,0) and  *)
(* (10,0), the only winner candidate 1, every voter in the target group    *)
(* and the size left to be proportional.                                   *)
ScenarioB ==
    /\ GIDone
    /\ voter_positions = [n |-> 2, d |-> 2, pts |-> <<<<0, 0>>, <<10, 0>>>>]
    /\ candidate_positions = [n |-> 3, d |-> 2, pts |-> <<<<0, 0>>, <<5, 0>>, <<10, 0>>>>]
    /\ winner_indices = <<1>>
    /\ Members = NumVoters
    /\ size = None

(* C5, as claimed: in scenario B the ratio is strictly greater than 1.     *)
C5_ScenarioBAboveOne ==
    ScenarioB => (result.kind = "score" /\ result.score.kind = "fin"
                  /\ result.score.num > result.score.den)

(* C5, amended: in scenario B the size is 1 and every candidate's total    *)
(* distance to the two voters is 10, so cost1 = cost2 = 10 and the ratio   *)
(* is exactly 1.                                                           *)
C5_ScenarioBIsOne ==
    ScenarioB => /\ result.kind = "score"
                 /\ result.size = 1
                 /\ result.cost1 = 10 /\ result.cost2 = 10
                 /\ IsOne(result.score)

(* C5 witness: scenario B has been scored.                                 *)
C5_Witness == ScenarioB /\ result.kind = "score"

(* C6: proportional_assignment_cost raises exactly when size exceeds the   *)
(* rows of its matrix, and group_inefficiency with an explicit size above  *)
(* k raises from the winner-restricted evaluation.                         *)
C6_SizeValidation ==
    /\ PacDone => (result.raised <=> size > NumCandidates)
    /\ (GIDone /\ size # None /\ size > NumWinners)
          => (result.kind = "ValueError" /\ result.calls = 1)

(* C6 witness: an explicit size that fits the candidates but not the       *)
(* winners makes group_inefficiency raise.                                 *)
C6_Witness ==
    /\ GIDone /\ size # None /\ size > NumWinners /\ size <= NumCandidates
    /\ result.kind = "ValueError"

(* C7: for size <= rows, proportional_assignment_cost returns the least    *)
(* total of the row sums of size distinct rows, and 0 for size 0.          *)
C7_GreedyIsOptimal ==
    (PacDone /\ ~result.raised) =>
        /\ IsMinSubsetCost(cst_array, size, result.value)
        /\ size = 0 => result.value = 0

(* C7 witness: three rows, two selected, and the two cheapest are not the  *)
(* first two.                                                              *)
C7_Witness ==
    /\ PacDone /\ ~result.raised /\ NumCandidates = 3 /\ size = 2
    /\ result.value < SumSeq(cst_array[1]) + SumSeq(cst_array[2])
    /\ result.value > 0

(* C8: both builders fail when the voter set is empty, the candidate set   *)
(* is empty or the dimensionalities differ.                                *)
C8_BuildersValidate ==
    (BuilderDone /\ (\/ voter_positions.n = 0
                     \/ candidate_positions.n = 0
                     \/ voter_positions.d # candidate_positions.d))
        => result.kind = "error"

(* C9: the auto-computed weights are finite, non-negative and sum to 1.    *)
C9_WeightsNormalised ==
    (fn = "random_group_inefficiency" /\ pc \in {"sample", "done"}) =>
        /\ \A j \in 1..Len(weights) : weights[j].kind = "fin" /\ weights[j].num >= 0
        /\ IsOne(QSum(weights))

(* C10: with no size supplied the size is floor(bloc_size * k / n), lies   *)
(* in 0..k with k <= m, and the call never raises the size error.          *)
C10_ProportionalSize ==
    (GIDone /\ size = None) =>
        /\ result.size = ExactShare
        /\ 0 <= result.size /\ result.size <= NumWinners
        /\ NumWinners <= NumCandidates
        /\ result.kind # "ValueError"

(* Lemma for C10: the size is the exact share or one below it, and always  *)
(* within 0..k.                                                            *)
SizeWithinOneOfShare ==
    (GIDone /\ size = None) =>
        /\ result.size \in {ExactShare, ExactShare - 1}
        /\ 0 <= result.size /\ result.size <= NumWinners
        /\ result.kind # "ValueError"

====
